---- MODULE Spec2Model ----
(***************************************************************************)
(* vite-plugin-sri (src/index.ts): the writeBundle hook of the plugin.     *)
(*                                                                         *)
(* Strings (URLs, file names, base paths) are sequences of atoms.  Every   *)
(* atom stands for a fixed piece of text ("/", "./", "a.js", "i.html") and *)
(* no atom is a prefix of another one, so "begins with" and "substring     *)
(* from" on atom sequences are String.indexOf(..) === 0 and                *)
(* String.substring on the text.  The empty string is <<>>.                *)
(*                                                                         *)
(* An optional value (a JavaScript value that may be undefined) is a       *)
(* sequence of length 0 or 1: None is undefined, Some(x) is x.             *)
(*                                                                         *)
(* The bytes of a file are a sequence of nodes: a text node or an element  *)
(* with the attributes the plugin reads or writes.  cheerio's load() and   *)
(* $.html() are the parse and the serialisation between an HTML source and *)
(* this sequence; the plugin does not look inside them.                    *)
(***************************************************************************)
EXTENDS Integers, Sequences, FiniteSets, TLC

\* Bounds of the model.
MaxEvents == 2
MaxElems == 2

--------------------------------------------------------------------------
\* Optional values.
None == <<>>
Some(x) == <<x>>
IsSome(o) == Len(o) = 1
Val(o) == o[1]

\* Strings.
StartsWith(s, p) == Len(p) <= Len(s) /\ SubSeq(s, 1, Len(p)) = p
Substring(s, from) == SubSeq(s, from + 1, Len(s))
EndsWithHtml(s) == Len(s) > 0 /\ s[Len(s)] \in {"i.html"}

\* Nodes of a document.
Node(tag, text, src, href, integrity, crossorigin) ==
  [tag |-> tag, text |-> text, src |-> src, href |-> href,
   integrity |-> integrity, crossorigin |-> crossorigin]
Text(t) == Node("#text", t, None, None, None, None)

\* A file content: a string or a Buffer/Uint8Array holding bytes.
Str(bytes) == [isString |-> TRUE, bytes |-> bytes]
Buf(bytes) == [isString |-> FALSE, bytes |-> bytes]

\* createHash('sha384').update(source).digest().toString('base64') with the
\* "sha384-" prefix: a function of the bytes alone, one value per content.
Sha384Integrity(source) == [prefix |-> "sha384-", base64 |-> source.bytes]

\* JavaScript truthiness of `source`: undefined and the empty string are
\* falsy; every Buffer, the empty one included, is truthy.
Truthy(o) == IsSome(o) /\ ~(Val(o).isString /\ Val(o).bytes = <<>>)

--------------------------------------------------------------------------
\* Records of the output bundle.
Asset(name, source) ==
  [type |-> "asset", fileName |-> name, source |-> Some(source), code |-> None]
Chunk(name, code) ==
  [type |-> "chunk", fileName |-> name, source |-> None, code |-> Some(code)]
Entry(k, v) == [key |-> k, value |-> v]

\* path.resolve(dir, p): an absolute p leaves dir; "." segments and the
\* separators are normalised away.
IsAbsolute(p) == Len(p) > 0 /\ p[1] = "/"
IsSegment(a) == a \notin {"/", "./"}
Resolve(dir, p) ==
  [root |-> IF IsAbsolute(p) THEN "/" ELSE dir, segs |-> SelectSeq(p, IsSegment)]

\* options.dir and resolve(config.root, config.build.outDir): Vite hands the
\* same directory to Rollup as output directory.
OutDir == "DIR"

\* The file system: a function from resolved paths of regular files to bytes.
WriteFile(d, p, bytes) ==
  [q \in DOMAIN d \cup {p} |-> IF q = p THEN bytes ELSE d[q]]
\* readFileSync: a Buffer, or a throw (None) for a missing file or a directory.
ReadFile(d, p) == IF p \in DOMAIN d THEN Some(Buf(d[p])) ELSE None

VARIABLES config, bundle, disk, tasks, warnings, events

vars == <<config, bundle, disk, tasks, warnings, events>>

--------------------------------------------------------------------------
\* Lines 46-49: bundle[k] = v, keeping the position of a key already there.
Assign(b, k, v) ==
  IF \E i \in 1..Len(b) : b[i].key = k
    THEN [i \in 1..Len(b) |-> IF b[i].key = k THEN Entry(k, v) ELSE b[i]]
    ELSE Append(b, Entry(k, v))

\* A registry that holds the latest bundle only.
MergeReplacing(b, incoming) == incoming

RECURSIVE Merge(_, _)
Merge(b, incoming) ==
  IF incoming = <<>> THEN b
  ELSE Merge(Assign(b, incoming[1].key, incoming[1].value), Tail(incoming))

\* Lines 51-66: the HTML documents of the accumulated bundle.
IsHtmlEntry(e) == EndsWithHtml(e.key) /\ e.value.type = "asset"
HtmlOf(e) == [name |-> e.value.fileName, source |-> Val(e.value.source)]
RECURSIVE MapHtml(_)
MapHtml(es) == IF es = <<>> THEN <<>> ELSE <<HtmlOf(es[1])>> \o MapHtml(Tail(es))
Htmls(b) == MapHtml(SelectSeq(b, IsHtmlEntry))

\* Lines 73-74: $('script').filter('[src]') and $('link').filter('[href]').
IsScript(n) == n.tag = "script" /\ IsSome(n.src)
IsStylesheet(n) == n.tag = "link" /\ IsSome(n.href)
RECURSIVE Indices(_, _, _)
Indices(dom, i, scripts) ==
  IF i > Len(dom) THEN <<>>
  ELSE (IF (IF scripts THEN IsScript(dom[i]) ELSE IsStylesheet(dom[i]))
          THEN <<i>> ELSE <<>>) \o Indices(dom, i + 1, scripts)
\* Line 120-127: the scripts' tasks are started first, then the stylesheets'.
TaskOrder(dom) == Indices(dom, 1, TRUE) \o Indices(dom, 1, FALSE)

\* Lines 78-79.
AttributeName(el) == IF IsSome(el.src) /\ Val(el.src) # <<>> THEN "src" ELSE "href"
ResourceUrl(el) == IF AttributeName(el) = "src" THEN el.src ELSE el.href

\* A path from which the base is removed as long as it leads.
ResourcePathTwice(resourceUrl, base) ==
  LET once == IF StartsWith(resourceUrl, base)
                THEN Substring(resourceUrl, Len(base))
                ELSE resourceUrl
  IN IF StartsWith(once, base) THEN Substring(once, Len(base)) ELSE once

\* Lines 81-84.
ResourcePath(resourceUrl, base) ==
  IF StartsWith(resourceUrl, base)
    THEN Substring(resourceUrl, Len(base))
    ELSE resourceUrl

\* Lines 86-88: the first entry whose fileName is the path.
Find(b, resourcePath) ==
  LET hits == SelectSeq(b, LAMBDA e : e.value.fileName = resourcePath)
  IN IF hits = <<>> THEN None ELSE Some(hits[1].value)

\* Lines 100-104: the content of a record of the bundle.
Content(v) == IF v.type = "asset" THEN v.source ELSE v.code

\* Lines 107-111.
SetIntegrity(el, source) ==
  IF Truthy(source)
    THEN [el EXCEPT !.integrity = Some(Sha384Integrity(Val(source)))]
    ELSE el

\* A crossorigin written whatever the element carried.
SetCrossoriginAlways(el) == [el EXCEPT !.crossorigin = Some("anonymous")]

\* Lines 113-117.
SetCrossorigin(el) ==
  IF el.crossorigin = None
    THEN [el EXCEPT !.crossorigin = Some("anonymous")]
    ELSE el

\* Lines 76-118: calculateIntegrityHashes on one element.  `threw` is the
\* TypeError of resourceUrl.indexOf on undefined (line 82); nothing of the
\* body runs after it.
CalculateIntegrityHashes(el, b, d, base) ==
  LET resourceUrl == ResourceUrl(el) IN
  IF ~IsSome(resourceUrl)
    THEN [threw |-> TRUE, el |-> el, warned |-> <<>>, path |-> None, t |-> None,
          read |-> None, how |-> "threw"]
    ELSE
      LET resourcePath == ResourcePath(Val(resourceUrl), base)
          t == Find(b, resourcePath)
          read == ReadFile(d, Resolve(OutDir, resourcePath))
          source == IF ~IsSome(t) THEN read ELSE Content(Val(t))
      IN [threw |-> FALSE, el |-> SetCrossorigin(SetIntegrity(el, source)),
          warned |-> IF IsSome(t) THEN <<>> ELSE <<resourcePath>>,
          path |-> Some(resourcePath), t |-> t,
          read |-> IF IsSome(t) THEN None ELSE read,
          how |-> IF IsSome(t) THEN "bundle"
                  ELSE IF IsSome(read) THEN "disk" ELSE "absent"]

\* Lines 68-127: the synchronous part of one document's callback, up to the
\* await of Promise.all: every element task runs to its end (none of them
\* awaits anything) before the callback suspends.
RECURSIVE RunTasks(_, _, _, _, _)
RunTasks(st, order, b, d, base) ==
  IF order = <<>> THEN st
  ELSE
    LET i == order[1]
        r == CalculateIntegrityHashes(st.dom[i], b, d, base)
    IN RunTasks([dom |-> [st.dom EXCEPT ![i] = r.el],
                 warned |-> st.warned \o r.warned,
                 trace |-> Append(st.trace, [idx |-> i, path |-> r.path, t |-> r.t,
                                             read |-> r.read, warned |-> r.warned,
                                             how |-> r.how]),
                 threw |-> st.threw \/ r.threw],
                Tail(order), b, d, base)

Load(source) == source.bytes

\* A callback's record: `ev` numbers the hook call that started it, `incoming`
\* is that call's _bundle and `html` the source it parsed (all three are in the
\* callback's scope); `trace` keeps, per element task in starting order, the
\* locals resourcePath, t and the file read, the warning logged and the branch
\* taken.
StartDocument(h, incoming, b, d, base, ev) ==
  LET dom == Load(h.source)
      st == RunTasks([dom |-> dom, warned |-> <<>>, trace |-> <<>>, threw |-> FALSE],
                     TaskOrder(dom), b, d, base)
  IN [ev |-> ev, name |-> h.name, incoming |-> incoming, html |-> dom,
      dom |-> st.dom, trace |-> st.trace,
      warned |-> st.warned, threw |-> st.threw, pc |-> "awaiting"]

RECURSIVE StartAll(_, _, _, _, _, _)
StartAll(hs, incoming, b, d, base, ev) ==
  IF hs = <<>> THEN <<>>
  ELSE <<StartDocument(hs[1], incoming, b, d, base, ev)>>
       \o StartAll(Tail(hs), incoming, b, d, base, ev)

RECURSIVE Flatten(_)
Flatten(ss) == IF ss = <<>> THEN <<>> ELSE ss[1] \o Flatten(Tail(ss))

Range(s) == {s[i] : i \in 1..Len(s)}

--------------------------------------------------------------------------
\* What the host delivers.

\* The elements an emitted index.html is made of, in document order.
ElementList ==
  << Node("script", "", Some(<<"/", "a.js">>), None, None, None),
     Node("link", "", None, Some(<<"/", "a.js">>), None, Some("")),
     Node("script", "", Some(<<"a.js">>), None,
          Some(Sha384Integrity(Str(<<Text("stale")>>))), Some("use-credentials")),
     Node("link", "", None, Some(<<"/", "/", "a.js">>), None, None),
     Node("script", "", Some(<<>>), None, None, None),
     Node("link", "", None, Some(<<"./", "i.html">>),
          Some(Sha384Integrity(Str(<<Text("stale")>>))), None),
     Node("script", "", None, None, None, None),
     Node("link", "", None, Some(<<>>), None, None) >>

\* The documents of at most n elements taken, in order, from ElementList[i..].
RECURSIVE DocumentsFrom(_, _)
DocumentsFrom(i, n) ==
  IF n = 0 \/ i > Len(ElementList) THEN {<<>>}
  ELSE DocumentsFrom(i + 1, n)
       \cup {<<ElementList[i]>> \o d : d \in DocumentsFrom(i + 1, n - 1)}

Documents == DocumentsFrom(1, MaxElems)

JsRecords ==
  { Chunk(<<"a.js">>, Str(<<Text("x")>>)),
    Asset(<<"a.js">>, Str(<<>>)),
    Asset(<<"a.js">>, Buf(<<Text("y")>>)) }

\* index.html is emitted as an asset; one record of another type under that
\* name stands for a file the type test of line 56 passes over.
HtmlRecords ==
  {Asset(<<"i.html">>, Str(doc)) : doc \in Documents}
    \cup {Chunk(<<"i.html">>, Str(<<ElementList[1]>>))}

\* The index.html of a build does not change between its passes: once it is in
\* the registry, a later pass emits it again unchanged.
HtmlChoices ==
  LET held == SelectSeq(bundle, LAMBDA e : EndsWithHtml(e.key))
  IN IF held = <<>> THEN HtmlRecords ELSE {held[1].value}

Bundles ==
  LET js == {<<>>} \cup {<<Entry(v.fileName, v)>> : v \in JsRecords}
      html == {<<>>} \cup {<<Entry(v.fileName, v)>> : v \in HtmlChoices}
  IN {j \o h : j \in js, h \in html}

Bases == {<<>>, <<"/">>}

\* Rollup has written the emitted files when it calls writeBundle.
RECURSIVE Emitted(_, _)
Emitted(d, incoming) ==
  IF incoming = <<>> THEN d
  ELSE LET v == incoming[1].value
       IN Emitted(WriteFile(d, Resolve(OutDir, v.fileName),
                            Val(Content(v)).bytes),
                  Tail(incoming))

--------------------------------------------------------------------------
Init ==
  /\ config = None
  /\ bundle = <<>>
  /\ disk = <<>>
  /\ tasks = {}
  /\ warnings = <<>>
  /\ events = 0

\* Lines 36-38.
ConfigResolved(base) ==
  /\ config = None
  /\ config' = Some([base |-> base])
  /\ UNCHANGED <<bundle, disk, tasks, warnings, events>>

\* The hook with the HTML documents taken from its own _bundle.
WriteBundleOwnHtml(incoming) ==
  /\ IsSome(config)
  /\ events < MaxEvents
  /\ LET b == Merge(bundle, incoming)
         d == Emitted(disk, incoming)
         started == StartAll(Htmls(incoming), incoming, b, d, Val(config).base, events + 1)
     IN /\ bundle' = b
        /\ disk' = d
        /\ tasks' = tasks \cup Range(started)
        /\ warnings' = warnings \o Flatten([i \in 1..Len(started) |-> started[i].warned])
  /\ events' = events + 1
  /\ UNCHANGED config

\* Lines 41-133, up to the point where the hook returns: the merge, the
\* selection of the HTML documents and, for each of them, the callback up to
\* its await.  forEach does not wait for the callbacks, so the promise the
\* hook returns is settled when this step ends: `events` counts the calls
\* whose promise has settled, and the host is free to call again.
WriteBundle(incoming) ==
  /\ IsSome(config)
  /\ events < MaxEvents
  /\ LET b == Merge(bundle, incoming)
         d == Emitted(disk, incoming)
         started == StartAll(Htmls(b), incoming, b, d, Val(config).base, events + 1)
     IN /\ bundle' = b
        /\ disk' = d
        /\ tasks' = tasks \cup Range(started)
        /\ warnings' = warnings \o Flatten([i \in 1..Len(started) |-> started[i].warned])
  /\ events' = events + 1
  /\ UNCHANGED config

\* The write with the markup stored back into the registry record.
WriteHtmlIntoBundle(t) ==
  /\ t \in tasks /\ t.pc = "awaiting" /\ ~t.threw
  /\ disk' = WriteFile(disk, Resolve(OutDir, t.name), t.dom)
  /\ bundle' = Assign(bundle, t.name, Asset(t.name, Str(t.dom)))
  /\ tasks' = (tasks \ {t}) \cup {[t EXCEPT !.pc = "written"]}
  /\ UNCHANGED <<config, warnings, events>>

\* Lines 129-132: Promise.all fulfilled, the callback resumes and writes.
WriteHtml(t) ==
  /\ t \in tasks /\ t.pc = "awaiting" /\ ~t.threw
  /\ disk' = WriteFile(disk, Resolve(OutDir, t.name), t.dom)
  /\ tasks' = (tasks \ {t}) \cup {[t EXCEPT !.pc = "written"]}
  /\ UNCHANGED <<config, bundle, warnings, events>>

\* Line 120: Promise.all rejected, the await throws in the callback, whose
\* promise nobody holds: the document is not written.
Reject(t) ==
  /\ t \in tasks /\ t.pc = "awaiting" /\ t.threw
  /\ tasks' = (tasks \ {t}) \cup {[t EXCEPT !.pc = "rejected"]}
  /\ UNCHANGED <<config, bundle, disk, warnings, events>>

Next ==
  \/ \E base \in Bases : ConfigResolved(base)
  \/ \E incoming \in Bundles : WriteBundle(incoming)
  \/ \E t \in tasks : WriteHtml(t)
  \/ \E t \in tasks : Reject(t)

Spec == Init /\ [][Next]_vars

--------------------------------------------------------------------------
\* Vocabulary of the properties.
HasKey(b, k) == \E i \in 1..Len(b) : b[i].key = k
Eligible(el) == IsScript(el) \/ IsStylesheet(el)
\* The reference of an eligible element: src of a script, href of a link.
ReferenceUrl(el) == IF el.tag = "script" THEN Val(el.src) ELSE Val(el.href)
DefaultedCrossorigin(el) ==
  IF el.crossorigin = None THEN Some("anonymous") ELSE el.crossorigin
\* The callbacks a step starts: those of the writeBundle call it is.
Started == IF events' = events THEN {} ELSE {task \in tasks' : task.ev = events'}
Reads(task) == [k \in 1..Len(task.trace) |-> task.trace[k].read]

\* C1: in a written document, every eligible element whose stripped URL is the
\* file name of a registry record carries integrity = "sha384-" + base64 digest
\* of that record's content (source of an asset, code of a chunk), whatever
\* that content and whatever integrity it had before.
C1_IntegrityOfEveryMatchingRecord ==
  \A task \in tasks : task.pc = "written" =>
    \A k \in 1..Len(task.trace) :
      LET e == task.trace[k]
      IN IsSome(e.t) =>
           task.dom[e.idx].integrity = Some(Sha384Integrity(Val(Content(Val(e.t)))))

\* C2: in a written document, every eligible element that had no crossorigin
\* carries crossorigin="anonymous" and every eligible element that had one
\* keeps its value, resolved or not.
C2_CrossoriginDefaultedOrKept ==
  \A task \in tasks : task.pc = "written" =>
    \A i \in 1..Len(task.html) :
      Eligible(task.html[i]) =>
        task.dom[i].crossorigin = DefaultedCrossorigin(task.html[i])

C2_Witness ==
  \E task \in tasks :
    /\ task.pc = "written"
    /\ \E k \in 1..Len(task.trace) :
         LET e == task.trace[k]
         IN /\ e.how = "absent"
            /\ task.html[e.idx].crossorigin = None
            /\ task.dom[e.idx].crossorigin = Some("anonymous")
    /\ \E k \in 1..Len(task.trace) :
         LET e == task.trace[k]
         IN /\ e.how = "bundle"
            /\ task.html[e.idx].crossorigin = Some("use-credentials")
            /\ task.dom[e.idx].crossorigin = Some("use-credentials")

\* C3: when a rewrite starts, every eligible element whose stripped reference
\* path matches no registry record and cannot be read from the output directory
\* keeps the integrity it had (none is added), gets the default crossorigin
\* when it had none, and has exactly one warning logged that names the path.
C3_UnresolvedDegradesWithOneWarning ==
  [][\A task \in Started : \A i \in 1..Len(task.html) :
       LET el == task.html[i]
           p == ResourcePath(ReferenceUrl(el), Val(config).base)
       IN (/\ Eligible(el)
           /\ ~IsSome(Find(bundle', p))
           /\ ~IsSome(ReadFile(disk', Resolve(OutDir, p))))
          => /\ task.dom[i].integrity = el.integrity
             /\ task.dom[i].crossorigin = DefaultedCrossorigin(el)
             /\ \E k \in 1..Len(task.trace) :
                  task.trace[k].idx = i /\ task.trace[k].warned = <<p>>]_vars

\* C4: no step removes a name from the registry, and a reference to a name
\* that an earlier writeBundle event merged is resolved from the registry
\* record kept under that name, with no warning and no read of the disk.
C4_RegistryKeepsNames ==
  [][/\ \A i \in 1..Len(bundle) : HasKey(bundle', bundle[i].key)
     /\ \A task \in Started : \A k \in 1..Len(task.trace) :
          LET e == task.trace[k]
          IN (IsSome(e.path) /\ HasKey(bundle, Val(e.path)))
             => /\ e.how = "bundle"
                /\ e.warned = <<>>
                /\ e.read = None
                /\ e.t = Find(bundle', Val(e.path))]_vars

C4_Witness ==
  \E task \in tasks :
    /\ task.ev = 2
    /\ HasKey(task.incoming, task.name)
    /\ ~HasKey(task.incoming, <<"a.js">>)
    /\ task.pc = "written"
    /\ \E k \in 1..Len(task.trace) :
         LET e == task.trace[k]
         IN /\ e.path = Some(<<"a.js">>)
            /\ e.how = "bundle"
            /\ task.dom[e.idx].integrity = Some(Sha384Integrity(Val(Content(Val(e.t)))))

\* C5 as claimed: for a URL u that begins with the base b, the registry key
\* used for u is the key that resolving u without its leading b yields.
C5_SameKeyAsStrippedUrl ==
  \A task \in tasks : \A k \in 1..Len(task.trace) :
    LET e == task.trace[k]
        b == Val(config).base
        u == ReferenceUrl(task.html[e.idx])
    IN (IsSome(e.path) /\ StartsWith(u, b))
       => e.path = Some(ResourcePath(Substring(u, Len(b)), b))

\* C5 as amended: for a URL u that begins with the base b, the registry key is
\* u with one leading b removed and nothing else changed; it is the key of the
\* stripped URL whenever the stripped URL does not begin with b again (or b is
\* empty).
C5_OnePrefixRemoved ==
  \A task \in tasks : \A k \in 1..Len(task.trace) :
    LET e == task.trace[k]
        b == Val(config).base
        u == ReferenceUrl(task.html[e.idx])
        stripped == Substring(u, Len(b))
    IN (IsSome(e.path) /\ StartsWith(u, b))
       => /\ e.path = Some(stripped)
          /\ b \o stripped = u
          /\ (b = <<>> \/ ~StartsWith(stripped, b))
             => e.path = Some(ResourcePath(stripped, b))

C5_Witness ==
  \E task \in tasks : \E k \in 1..Len(task.trace) :
    LET e == task.trace[k]
        u == ReferenceUrl(task.html[e.idx])
    IN /\ Val(config).base = <<"/">>
       /\ u = <<"/", "/", "a.js">>
       /\ e.path = Some(<<"/", "a.js">>)
       /\ \E j \in 1..Len(task.trace) :
            /\ ReferenceUrl(task.html[task.trace[j].idx]) = <<"/", "a.js">>
            /\ task.trace[j].path = Some(<<"a.js">>)
            /\ task.trace[j].how = "bundle"

\* C6: only a writeBundle event changes the registry (no rewrite or write
\* alters a record), and an event that leaves the registry unchanged rewrites
\* every document to the markup the previous event's rewrite of it produced,
\* from the same raw source, provided the files it read from disk are the same.
C6_RewriteIdempotent ==
  [][/\ events' = events => bundle' = bundle
     /\ (events' # events /\ bundle' = bundle) =>
          \A new \in Started : \A old \in tasks :
            (old.name = new.name /\ old.ev = events /\ Reads(old) = Reads(new))
            => /\ new.html = old.html
               /\ new.dom = old.dom
               /\ new.threw = old.threw]_vars

C6_Witness ==
  \E old \in tasks : \E new \in tasks :
    /\ old.ev = 1 /\ new.ev = 2 /\ old.name = new.name
    /\ new.incoming = <<>>
    /\ old.pc = "written" /\ new.pc = "written"
    /\ new.dom = old.dom
    /\ new.dom # new.html
    /\ \E k \in 1..Len(new.trace) : new.trace[k].how = "bundle"
    /\ \E k \in 1..Len(new.trace) : new.trace[k].how = "disk"

\* C7: no element task is fatal to its document: whatever the value of the
\* src or href (the empty string included), no task throws and no document's
\* callback ends without writing.
C7_ElementNeverFatal ==
  \A task \in tasks :
    /\ \A k \in 1..Len(task.trace) : task.trace[k].how # "threw"
    /\ task.pc # "rejected"

\* C8 as claimed: once a document has been written, a later writeBundle event
\* whose _bundle does not contain it starts no rewrite of it.
C8_TerminalOnceWritten ==
  [][\A old \in tasks : old.pc = "written" =>
       \A new \in Started :
         new.name = old.name => HasKey(new.incoming, new.name)]_vars

\* C8 as amended: every writeBundle event starts a rewrite of every asset
\* record of the accumulated registry whose name ends in .html, from the
\* record's source, whether or not the event's own _bundle contains it and
\* whether or not it was written before.
C8_EveryEventRewritesRegistryHtml ==
  [][events' # events =>
       /\ \A i \in 1..Len(bundle') :
            IsHtmlEntry(bundle'[i]) =>
              \E new \in Started :
                /\ new.name = bundle'[i].value.fileName
                /\ new.ev = events'
                /\ new.html = Load(Val(bundle'[i].value.source))
       /\ \A new \in Started :
            \E i \in 1..Len(bundle') :
              IsHtmlEntry(bundle'[i]) /\ new.name = bundle'[i].value.fileName]_vars

C8_Witness ==
  \E old \in tasks : \E new \in tasks :
    /\ old.ev = 1 /\ new.ev = 2 /\ old.name = new.name
    /\ ~HasKey(new.incoming, new.name)
    /\ old.pc = "written" /\ new.pc = "written"
    /\ new.dom # new.html

\* C9: when the promise of a writeBundle call has settled (the hook has
\* returned: `events` counts the calls that have), every document of that
\* call has been written: no callback it started is still suspended.
C9_SettledMeansWritten ==
  \A task \in tasks : task.ev <= events => task.pc # "awaiting"

\* C10: a document is written only after the task of every eligible element
\* has completed, the written markup carries all their mutations, and every
\* callback that has resumed has written its document (once per event).
C10_WrittenOnceAfterAllTasks ==
  \A task \in tasks :
    /\ task.pc = "written" =>
         \A i \in 1..Len(task.html) :
           Eligible(task.html[i]) =>
             \E k \in 1..Len(task.trace) :
               /\ task.trace[k].idx = i
               /\ task.trace[k].how # "threw"
               /\ task.dom[i].crossorigin # None
    /\ task.pc # "awaiting" => task.pc = "written"

====
